---- MODULE Spec2Model ----
(***************************************************************************)
(* Model of the Crypto-Arbitrage-Tool Updater: the gocron scheduler of     *)
(* main, the two differential SQL jobs guarded by diffMutex, the spot      *)
(* differential statement (lifetime rule), and the venue adapters'         *)
(* fetch / normalise / transactional-write pipeline.                       *)
(*                                                                         *)
(* Time is a discrete clock; a timestamp is a clock value.  A nullable     *)
(* SQL value is the empty tuple (NULL) or a one-element tuple.             *)
(***************************************************************************)
EXTENDS Integers, Sequences, FiniteSets, TLC

VARIABLES
    clock,      \* wall clock (time.Now() / NOW())
    db,         \* committed database tables: pairs, nets, diffs
    diffMutex,  \* sync.Mutex of main: TRUE when locked
    task,       \* differential job invocations (goroutines started by gocron)
    hist,       \* history: diffs before the last successful spot differential run
    run         \* the adapter invocation in flight

vars == <<clock, db, diffMutex, task, hist, run>>

-----------------------------------------------------------------------------
(* Bounds of the model *)

MaxClock == 4
MaxOverlap == 2

-----------------------------------------------------------------------------
(* Nullable values *)

Null == <<>>
Some(t) == <<t>>
IsNull(x) == x = <<>>
Val(x) == x[1]

\* SQL TRUNC of a quotient: toward zero.
TruncDivMutantFloor(a, b) == IF b > 0 THEN a \div b ELSE (-a) \div (-b)

TruncDiv(a, b) ==
    LET abs(x) == IF x >= 0 THEN x ELSE -x
        q == abs(a) \div abs(b)
    IN  IF (a >= 0) = (b >= 0) THEN q ELSE -q

-----------------------------------------------------------------------------
(* Differential engine: the spot statement *)

\* Venues whose spot rows feed the differential in this model, and the one
\* symbol they share.
DiffVenues == {"Binance", "Bybit"}
DiffSymbol == "BTCUSDT"
SnapshotPrices == {0, 100, 101}

PctClamp == 1000000000

\* A percentage with two decimals: whole percent and hundredths, both of the
\* sign of the value (the bound counted in hundredths exceeds the integer
\* range).
Pct(whole, cents) == [whole |-> whole, cents |-> cents]
Positive(p) == p.whole > 0 \/ (p.whole = 0 /\ p.cents > 0)

\* x > PctClamp and x < -PctClamp.
AbovePctClamp(x) == x.whole > PctClamp \/ (x.whole = PctClamp /\ x.cents > 0)
BelowPctClamp(x) == x.whole < -PctClamp \/ (x.whole = -PctClamp /\ x.cents < 0)

\* TRUNC(((second - first) / first) * 100, 2)
TruncatedPercentage(first, second) ==
    LET whole == TruncDiv((second - first) * 100, first)
        rest  == (second - first) * 100 - whole * first
    IN  Pct(whole, TruncDiv(rest * 100, first))

\* CASE ... END AS differencePercentage.
DifferencePercentage(first, second) ==
    LET t == TruncatedPercentage(first, second)
    IN  IF AbovePctClamp(t) THEN Pct(PctClamp, 0)
        ELSE IF BelowPctClamp(t) THEN Pct(-PctClamp, 0)
        ELSE t

\* market_combinations: ordered pairs of pairs rows.
MarketCombinationsMutantAscending(pairs) ==
    { ab \in (DOMAIN pairs) \X (DOMAIN pairs) :
        /\ pairs[ab[1]].symbol = pairs[ab[2]].symbol
        /\ pairs[ab[1]].exchange # pairs[ab[2]].exchange
        /\ pairs[ab[1]].price # 0
        /\ pairs[ab[2]].price > pairs[ab[1]].price }

MarketCombinations(pairs) ==
    { ab \in (DOMAIN pairs) \X (DOMAIN pairs) :
        /\ pairs[ab[1]].symbol = pairs[ab[2]].symbol
        /\ pairs[ab[1]].exchange # pairs[ab[2]].exchange
        /\ pairs[ab[1]].price # 0
        /\ pairs[ab[2]].price # 0 }

\* CONCAT(symbol, '_', firstPairExchange, '-', secondPairExchange)
DiffPairKeyMutantUndirected(a, b) == <<a.symbol, "Binance", "Bybit">>

DiffPairKey(a, b) == <<a.symbol, a.exchange, b.exchange>>

\* CASE ... END AS timeOfLife of updating_data; prev is Null when the LEFT
\* JOIN finds no row, else Some(row).
TimeOfLifeMutantKeep(pct, prev, now) ==
    IF ~IsNull(prev) /\ ~IsNull(Val(prev).timeOfLife)
    THEN Val(prev).timeOfLife
    ELSE IF Positive(pct) THEN Some(now) ELSE Null

TimeOfLifeMutantNow(pct, prev, now) ==
    IF Positive(pct) THEN Some(now) ELSE Null

TimeOfLifeCase(pct, prev, now) ==
    IF Positive(pct)
    THEN IF ~IsNull(prev) /\ ~IsNull(Val(prev).timeOfLife)
         THEN Val(prev).timeOfLife
         ELSE Some(now)
    ELSE Null

\* CASE ... END AS timeElapsed of updating_data.
TimeElapsedMutantStale(pct, prev, now) ==
    IF Positive(pct) /\ ~IsNull(prev) /\ ~IsNull(Val(prev).timeOfLife)
    THEN Val(prev).timeElapsed
    ELSE 0

TimeElapsedCase(pct, prev, now) ==
    IF Positive(pct) /\ ~IsNull(prev) /\ ~IsNull(Val(prev).timeOfLife)
    THEN Val(prev).timeElapsed + (now - Val(Val(prev).timeOfLife))
    ELSE 0

\* jsonb_build_object('baseAsset', ..., 'quoteAsset', ...) over nets.
ExchangeNetworks(nets, exchange, baseAsset, quoteAsset) ==
    [baseAsset  |-> { k \in DOMAIN nets :
                        nets[k].exchange = exchange /\ nets[k].coin = baseAsset },
     quoteAsset |-> { k \in DOMAIN nets :
                        nets[k].exchange = exchange /\ nets[k].coin = quoteAsset }]

\* One row of updating_data for the combination (a, b).
UpdatingData(a, b, prev, nets, now) ==
    LET pct == DifferencePercentage(a.price, b.price)
    IN  [symbol                 |-> a.symbol,
         baseAsset              |-> a.baseAsset,
         quoteAsset             |-> a.quoteAsset,
         firstPairExchange      |-> a.exchange,
         firstPairPrice         |-> a.price,
         secondPairExchange     |-> b.exchange,
         secondPairPrice        |-> b.price,
         difference             |-> b.price - a.price,
         differencePercentage   |-> pct,
         timeOfLife             |-> TimeOfLifeCase(pct, prev, now),
         timeElapsed            |-> TimeElapsedCase(pct, prev, now),
         firstExchangeNetworks  |-> ExchangeNetworks(nets, a.exchange, a.baseAsset, a.quoteAsset),
         secondExchangeNetworks |-> ExchangeNetworks(nets, b.exchange, a.baseAsset, a.quoteAsset),
         updatedAt              |-> now,
         createdAt              |-> now]

\* INSERT INTO diffs ... ON CONFLICT (pairKey) DO UPDATE: the diffs table
\* after the statement ran at time now on the given committed tables.
UpdateDiffsSQL(d, now) ==
    LET combos == MarketCombinations(d.pairs)
        keyOf(ab) == DiffPairKey(d.pairs[ab[1]], d.pairs[ab[2]])
        keys == { keyOf(ab) : ab \in combos }
        comboOf(k) == CHOOSE ab \in combos : keyOf(ab) = k
        prevOf(k) == IF k \in DOMAIN d.diffs THEN Some(d.diffs[k]) ELSE Null
        newRow(k) == UpdatingData(d.pairs[comboOf(k)[1]], d.pairs[comboOf(k)[2]],
                                  prevOf(k), d.nets, now)
    IN  [k \in (DOMAIN d.diffs) \cup keys |->
            IF k \notin keys THEN d.diffs[k]
            ELSE IF k \in DOMAIN d.diffs
                 THEN [newRow(k) EXCEPT !.createdAt = d.diffs[k].createdAt]
                 ELSE newRow(k)]

-----------------------------------------------------------------------------
(* Scheduler: the two differential jobs of main *)

DiffJobs == {"updateDiffs", "updateDiffsFutures"}
Invocations == DiffJobs \X (1..MaxOverlap)

IdleTask == [pc |-> "idle", now |-> 0, err |-> "none", attempts |-> 0, result |-> <<>>]

\* sync.Mutex.Lock returns only when the mutex is unlocked.
MutexFreeMutant(m) == TRUE

MutexFree(m) == m = FALSE

\* gocron fires the job: the task goroutine starts and calls diffMutex.Lock().
Fire(i) ==
    /\ task[i].pc = "idle"
    /\ task' = [task EXCEPT ![i] = [IdleTask EXCEPT !.pc = "waitLock"]]
    /\ UNCHANGED <<clock, db, diffMutex, hist, run>>

\* diffMutex.Lock() returns.
Lock(i) ==
    /\ task[i].pc = "waitLock"
    /\ MutexFree(diffMutex)
    /\ diffMutex' = TRUE
    /\ task' = [task EXCEPT ![i].pc = "locked"]
    /\ UNCHANGED <<clock, db, hist, run>>

\* db.LoadSQLFromFile: the query text, or an error that ends the invocation.
LoadSQLFromFile(i) ==
    /\ task[i].pc = "locked"
    /\ \E ok \in BOOLEAN :
         task' = [task EXCEPT ![i].pc = IF ok THEN "loaded" ELSE "returned",
                              ![i].err = IF ok THEN "none" ELSE "load"]
    /\ UNCHANGED <<clock, db, diffMutex, hist, run>>

\* The statement of one differential job, evaluated on the tables committed
\* when it starts.  The futures statement writes diffsfutures only.
StatementResult(job, d, now) ==
    IF job = "updateDiffs" THEN UpdateDiffsSQL(d, now) ELSE d.diffs

\* db.ExecuteSQL: db.Exec(query) is sent; NOW() is the statement's start.
ExecuteSQLBegin(i) ==
    /\ task[i].pc = "loaded"
    /\ clock < MaxClock
    /\ task' = [task EXCEPT ![i].pc = "executing",
                            ![i].now = clock,
                            ![i].attempts = @ + 1,
                            ![i].result = StatementResult(i[1], db, clock)]
    /\ UNCHANGED <<clock, db, diffMutex, hist, run>>

ExecOutcomes == {"ok", "deadlock", "error"}

\* db.Exec returns: the statement committed, or failed and changed nothing.
\* ExecuteSQL logs and returns the error; the task logs it and ends.
ExecuteSQLEnd(i) ==
    /\ task[i].pc = "executing"
    /\ \E out \in ExecOutcomes :
         /\ task' = [task EXCEPT ![i].pc = "returned",
                                 ![i].err = IF out = "ok" THEN "none" ELSE out,
                                 ![i].result = <<>>]
         /\ IF out = "ok" /\ i[1] = "updateDiffs"
            THEN /\ db' = [db EXCEPT !.diffs = task[i].result]
                 /\ hist' = [prior |-> db.diffs, now |-> Some(task[i].now),
                             prevNow |-> hist.now]
            ELSE UNCHANGED <<db, hist>>
    /\ clock' = clock + 1
    /\ UNCHANGED <<diffMutex, run>>

\* The task function returns: the deferred diffMutex.Unlock() runs.
TaskReturnMutantKeepLocked(i) ==
    /\ task[i].pc = "returned"
    /\ diffMutex' = diffMutex
    /\ task' = [task EXCEPT ![i] = IdleTask]
    /\ UNCHANGED <<clock, db, hist, run>>

TaskReturn(i) ==
    /\ task[i].pc = "returned"
    /\ diffMutex' = FALSE
    /\ task' = [task EXCEPT ![i] = IdleTask]
    /\ UNCHANGED <<clock, db, hist, run>>

\* A spot adapter run of venue v commits its batch: the upsert of the one
\* shared symbol at the fetched price.  The row carries the columns the
\* differential statement reads.
SnapshotRow(v, price) ==
    [symbol |-> DiffSymbol, exchange |-> v, market |-> "spot", price |-> price,
     baseAsset |-> "BTC", quoteAsset |-> "USDT"]

UpsertSnapshot(pairs, k, row) ==
    [x \in (DOMAIN pairs) \cup {k} |->
        IF x # k THEN pairs[x]
        ELSE IF k \in DOMAIN pairs
             THEN [pairs[k] EXCEPT !.price = row.price]
             ELSE row]

SpotSnapshotCommit(v) ==
    /\ \E price \in SnapshotPrices :
         db' = [db EXCEPT !.pairs = UpsertSnapshot(@, <<DiffSymbol, v>>, SnapshotRow(v, price))]
    /\ UNCHANGED <<clock, diffMutex, task, hist, run>>

Tick ==
    /\ clock < MaxClock
    /\ clock' = clock + 1
    /\ UNCHANGED <<db, diffMutex, task, hist, run>>

-----------------------------------------------------------------------------
(* Specifications of the differential side *)

EmptyTable == [k \in {} |-> <<>>]

NoRun == [pc |-> "idle"]

NoHist == [prior |-> EmptyTable, now |-> Null, prevNow |-> Null]

\* The scheduler with both differential jobs and their overlapping
\* invocations, over a snapshot that holds the symbol on both venues.
InitSched ==
    /\ clock = 0
    /\ db = [pairs |-> [k \in {<<DiffSymbol, v>> : v \in DiffVenues} |->
                          SnapshotRow(k[2], IF k[2] = "Binance" THEN 100 ELSE 101)],
             nets |-> EmptyTable, diffs |-> EmptyTable]
    /\ diffMutex = FALSE
    /\ task = [i \in Invocations |-> IdleTask]
    /\ hist = NoHist
    /\ run = NoRun

NextSched ==
    \/ \E i \in Invocations : Fire(i)
    \/ \E i \in Invocations : Lock(i)
    \/ \E i \in Invocations : LoadSQLFromFile(i)
    \/ \E i \in Invocations : ExecuteSQLBegin(i)
    \/ \E i \in Invocations : ExecuteSQLEnd(i)
    \/ \E i \in Invocations : TaskReturn(i)

SpecSched == InitSched /\ [][NextSched]_vars

\* The scheduler when every call returns, with one invocation of each job.
\* gocron fires a job only while the clock leaves room for the statement of
\* every invocation under way; LoadSQLFromFile, db.Exec and the task
\* function return; sync.Mutex hands the lock to a goroutine that keeps
\* waiting (its starvation mode), so an invocation that can lock again and
\* again does lock.
FairInvocations == { <<job, 1>> : job \in DiffJobs }

NotYetExecuted == { i \in FairInvocations : task[i].pc \in {"waitLock", "locked", "loaded"} }

FireInTime(i) ==
    /\ clock + Cardinality(NotYetExecuted) < MaxClock
    /\ Fire(i)

\* The steps of an invocation that holds the lock.
Proceed(i) ==
    \/ LoadSQLFromFile(i)
    \/ ExecuteSQLBegin(i)
    \/ ExecuteSQLEnd(i)
    \/ TaskReturn(i)

NextSchedFair ==
    \/ \E i \in FairInvocations : FireInTime(i)
    \/ \E i \in FairInvocations : Lock(i)
    \/ \E i \in FairInvocations : Proceed(i)

FairSched ==
    /\ InitSched
    /\ [][NextSchedFair]_vars
    /\ \A i \in FairInvocations : SF_vars(Lock(i)) /\ WF_vars(Proceed(i))

\* The spot differential job against a snapshot that the spot adapters keep
\* rewriting.  diffMutex serialises the differential invocations, and the
\* futures statement does not touch diffs, so one invocation of updateDiffs
\* at a time stands for the job.
SpotJob == <<"updateDiffs", 1>>

InitLife ==
    /\ clock = 0
    /\ db = [pairs |-> EmptyTable, nets |-> EmptyTable, diffs |-> EmptyTable]
    /\ diffMutex = FALSE
    /\ task = [i \in Invocations |-> IdleTask]
    /\ hist = NoHist
    /\ run = NoRun

NextLife ==
    \/ Fire(SpotJob)
    \/ Lock(SpotJob)
    \/ LoadSQLFromFile(SpotJob)
    \/ ExecuteSQLBegin(SpotJob)
    \/ ExecuteSQLEnd(SpotJob)
    \/ TaskReturn(SpotJob)
    \/ \E v \in DiffVenues : SpotSnapshotCommit(v)
    \/ Tick

SpecLife == InitLife /\ [][NextLife]_vars

-----------------------------------------------------------------------------
(* Properties of the scheduler and the differential engine *)

\* Invocations past diffMutex.Lock() and not yet returned.
Holding == { i \in Invocations : task[i].pc \in {"locked", "loaded", "executing", "returned"} }

\* C1: at most one differential invocation (of either job, overlapping
\* invocations of one job included) is between Lock and Unlock at any time,
\* so at most one loads or executes its statement, and it does so only with
\* diffMutex locked.
C1_DiffMutualExclusion ==
    /\ Cardinality(Holding) <= 1
    /\ Holding # {} => diffMutex = TRUE

\* One invocation executes its statement while another invocation of the
\* same job and one of the other job wait for the mutex.
C1_Witness ==
    \E i, j, k \in Invocations :
        /\ task[i].pc = "executing"
        /\ j # i /\ j[1] = i[1] /\ task[j].pc = "waitLock"
        /\ k[1] # i[1] /\ task[k].pc = "waitLock"

\* The diffs row of key k was written by the last successful spot run.
WrittenByLastRun(k) ==
    /\ k \in DOMAIN db.diffs
    /\ ~IsNull(hist.now)
    /\ db.diffs[k].updatedAt = Val(hist.now)

\* The row of key k before the last successful spot run had an anchor.
PriorAnchored(k) ==
    /\ k \in DOMAIN hist.prior
    /\ ~IsNull(hist.prior[k].timeOfLife)

\* C2: a row a spot run writes with differencePercentage > 0 keeps the
\* prior row's timeOfLife and adds (now - prior.timeOfLife) to the prior
\* timeElapsed when the prior row has a timeOfLife, and otherwise is
\* anchored at now with timeElapsed 0.
C2_PositiveLifetimeRule ==
    \A k \in DOMAIN db.diffs :
        (WrittenByLastRun(k) /\ Positive(db.diffs[k].differencePercentage)) =>
            IF PriorAnchored(k)
            THEN /\ db.diffs[k].timeOfLife = hist.prior[k].timeOfLife
                 /\ db.diffs[k].timeElapsed =
                        hist.prior[k].timeElapsed
                        + (Val(hist.now) - Val(hist.prior[k].timeOfLife))
            ELSE /\ db.diffs[k].timeOfLife = hist.now
                 /\ db.diffs[k].timeElapsed = 0

\* A positive row written over a prior row that was anchored and had
\* already accumulated elapsed time.
C2_Witness ==
    \E k \in DOMAIN db.diffs :
        /\ WrittenByLastRun(k)
        /\ Positive(db.diffs[k].differencePercentage)
        /\ PriorAnchored(k)
        /\ hist.prior[k].timeElapsed > 0

\* C3: every diffs row with differencePercentage <= 0 has a NULL timeOfLife
\* and timeElapsed 0.
C3_NonPositiveCleared ==
    \A k \in DOMAIN db.diffs :
        ~Positive(db.diffs[k].differencePercentage) =>
            /\ IsNull(db.diffs[k].timeOfLife)
            /\ db.diffs[k].timeElapsed = 0

\* A run computed a non-positive percentage for a row that was positive,
\* anchored and had accumulated elapsed time.
C3_Witness ==
    \E k \in DOMAIN db.diffs :
        /\ WrittenByLastRun(k)
        /\ ~Positive(db.diffs[k].differencePercentage)
        /\ PriorAnchored(k)
        /\ Positive(hist.prior[k].differencePercentage)
        /\ hist.prior[k].timeElapsed > 0

\* The row of key k was written, with a positive percentage, by each of the
\* last two successful spot runs.
PositiveInLastTwoRuns(k) ==
    /\ WrittenByLastRun(k)
    /\ Positive(db.diffs[k].differencePercentage)
    /\ k \in DOMAIN hist.prior
    /\ ~IsNull(hist.prevNow)
    /\ hist.prior[k].updatedAt = Val(hist.prevNow)
    /\ Positive(hist.prior[k].differencePercentage)

\* C4: over two consecutive successful spot runs that both compute a
\* positive percentage for a pairKey, timeOfLife is unchanged and
\* timeElapsed strictly increases.
C4_LifetimeMonotonic ==
    \A k \in DOMAIN db.diffs :
        PositiveInLastTwoRuns(k) =>
            /\ db.diffs[k].timeOfLife = hist.prior[k].timeOfLife
            /\ db.diffs[k].timeElapsed > hist.prior[k].timeElapsed

C4_Witness ==
    \E k \in DOMAIN db.diffs :
        /\ PositiveInLastTwoRuns(k)
        /\ hist.prior[k].timeElapsed > 0

\* C5 as claimed: after a run that writes a positive row, timeElapsed is the
\* time since the row's timeOfLife.
C5_ElapsedIsTimeSinceAnchor ==
    \A k \in DOMAIN db.diffs :
        (WrittenByLastRun(k) /\ Positive(db.diffs[k].differencePercentage)) =>
            db.diffs[k].timeElapsed = Val(hist.now) - Val(db.diffs[k].timeOfLife)

\* C6 as claimed: an invocation whose statement failed with a deadlock
\* error ends only after three attempts.
C6_DeadlockRetriedThreeTimes ==
    \A i \in Invocations :
        (task[i].pc = "returned" /\ task[i].err = "deadlock") =>
            task[i].attempts = 3

-----------------------------------------------------------------------------
(* Venue adapters: one descriptor per scheduled operation *)

MaxRuns == 2

\* What an endpoint call can give: a 200 with a decodable body, a transport
\* error, a non-2xx status (whose body decodes), an undecodable body.
FetchOutcomes == {"ok", "transport", "status", "decode"}

\* The raw value a venue reports for an instrument: for a price endpoint the
\* price (0 also stands for a missing or unparsable one), for a currency
\* endpoint the deposit state of the coin's network (0: the coin lists no
\* network).
RawValues == {0, 1, 2}

\* fetches: HTTP calls of the operation; errCap: capacity of errChan;
\* unchecked: how many of the calls do not test the status code;
\* drops: a raw value of 0 yields no record; needsPayload: an empty answer
\* returns false before Begin; onEmpty: what an empty batch does;
\* write: how the batch is sent; deletes: DELETE of the venue's rows first;
\* prepareRollback: a Prepare error calls tx.Rollback().
AdapterOp(name, exchange, table, fetches, errCap, unchecked, drops, needsPayload, onEmpty, write, deletes, prepareRollback) ==
    [name |-> name, exchange |-> exchange, table |-> table,
     fetches |-> fetches, errCap |-> errCap, unchecked |-> unchecked,
     drops |-> drops, needsPayload |-> needsPayload, onEmpty |-> onEmpty,
     write |-> write, deletes |-> deletes, prepareRollback |-> prepareRollback]

BinanceUpdateAllSpotPairs ==
    AdapterOp("binance.UpdateAllSpotPairs", "Binance", "pairs", 3, 3, 0, FALSE,
              FALSE, "none", "prepared", FALSE, FALSE)

BinanceUpdateAllNetworks ==
    AdapterOp("binance.UpdateAllNetworks", "Binance", "nets", 2, 2, 0, TRUE,
              FALSE, "rollbackTrue", "exec", FALSE, FALSE)

BinanceUpdateAllFuturesPairs ==
    AdapterOp("binance.UpdateAllFuturesPairs", "Binance", "pairsfutures", 3, 3, 0, TRUE,
              FALSE, "false", "prepared", FALSE, FALSE)

BybitUpdateAllSpotPairs ==
    AdapterOp("bybit.UpdateAllSpotPairs", "Bybit", "pairs", 2, 2, 0, FALSE,
              FALSE, "false", "prepared", FALSE, FALSE)

BybitUpdateAllFuturesPairs ==
    AdapterOp("bybit.UpdateAllFuturesPairs", "Bybit", "pairsfutures", 2, 2, 0, FALSE,
              FALSE, "false", "prepared", FALSE, FALSE)

BackpackUpdateAllSpotPairs ==
    AdapterOp("backpack.UpdateAllSpotPairs", "Backpack", "pairs", 2, 3, 0, FALSE,
              FALSE, "none", "prepared", FALSE, FALSE)

BackpackUpdateAllFuturesPairs ==
    AdapterOp("backpack.UpdateAllFuturesPairs", "Backpack", "pairsfutures", 3, 3, 0, FALSE,
              FALSE, "none", "prepared", FALSE, FALSE)

MexcUpdateAllSpotPairs ==
    AdapterOp("mexc.UpdateAllSpotPairs", "MEXC", "pairs", 2, 2, 0, TRUE,
              FALSE, "false", "prepared", FALSE, FALSE)

MexcUpdateAllFuturesPairs ==
    AdapterOp("mexc.UpdateAllFuturesPairs", "MEXC", "pairsfutures", 1, 1, 0, FALSE,
              FALSE, "false", "prepared", FALSE, FALSE)

KucoinUpdateAllSpotPairs ==
    AdapterOp("kucoin.UpdateAllSpotPairs", "KuCoin", "pairs", 2, 1, 0, FALSE,
              FALSE, "none", "prepared", FALSE, FALSE)

OkxUpdateAllSpotPairs ==
    AdapterOp("okx.UpdateAllSpotPairs", "OKX", "pairs", 1, 1, 0, TRUE,
              FALSE, "none", "prepared", FALSE, FALSE)

GateUpdateAllSpotPairs ==
    AdapterOp("gate.UpdateAllSpotPairs", "Gate", "pairs", 2, 2, 0, FALSE,
              FALSE, "none", "prepared", FALSE, FALSE)

BitgetUpdateAllSpotPairs ==
    AdapterOp("bitget.UpdateAllSpotPairs", "Bitget", "pairs", 2, 2, 0, FALSE,
              FALSE, "none", "prepared", FALSE, FALSE)

BitgetUpdateAllNetworks ==
    AdapterOp("bitget.UpdateAllNetworks", "Bitget", "nets", 1, 1, 0, TRUE,
              FALSE, "rollbackTrue", "exec", FALSE, FALSE)

HuobiUpdateAllSpotPairs ==
    AdapterOp("huobi.UpdateAllSpotPairs", "Huobi", "pairs", 2, 2, 0, TRUE,
              FALSE, "false", "prepared", FALSE, TRUE)

HuobiUpdateAllNetworks ==
    AdapterOp("huobi.UpdateAllNetworks", "Huobi", "nets", 1, 1, 1, TRUE,
              FALSE, "none", "autoRows", FALSE, FALSE)

WhitebitUpdateAllSpotPairs ==
    AdapterOp("whitebit.UpdateAllSpotPairs", "WhiteBIT", "pairs", 2, 3, 1, TRUE,
              FALSE, "none", "prepared", FALSE, FALSE)

WhitebitUpdateAllNetworks ==
    AdapterOp("whitebit.UpdateAllNetworks", "WhiteBIT", "nets", 1, 1, 0, TRUE,
              TRUE, "commitFalse", "preparedRows", TRUE, TRUE)

KrakenUpdateAllSpotPairs ==
    AdapterOp("kraken.UpdateAllSpotPairs", "Kraken", "pairs", 2, 2, 2, FALSE,
              FALSE, "false", "exec", FALSE, FALSE)

\* The operations main schedules: exchanges (20 s), networks (150 s),
\* futures (10 s).
AdapterOps ==
    {BinanceUpdateAllSpotPairs, BybitUpdateAllSpotPairs, BackpackUpdateAllSpotPairs,
     MexcUpdateAllSpotPairs, KucoinUpdateAllSpotPairs, OkxUpdateAllSpotPairs,
     GateUpdateAllSpotPairs, BitgetUpdateAllSpotPairs, HuobiUpdateAllSpotPairs,
     WhitebitUpdateAllSpotPairs, KrakenUpdateAllSpotPairs,
     BinanceUpdateAllNetworks, BitgetUpdateAllNetworks, HuobiUpdateAllNetworks,
     WhitebitUpdateAllNetworks,
     BinanceUpdateAllFuturesPairs, BybitUpdateAllFuturesPairs,
     BackpackUpdateAllFuturesPairs, MexcUpdateAllFuturesPairs}

-----------------------------------------------------------------------------
(* Differential engine: the futures statement *)

\* market_combinations of the futures statement: ordered pairs of
\* pairsfutures rows.
MarketCombinationsFuturesMutantSameQuote(pf) ==
    { ab \in (DOMAIN pf) \X (DOMAIN pf) :
        /\ pf[ab[1]].exchange # pf[ab[2]].exchange
        /\ pf[ab[1]].baseAsset = pf[ab[2]].baseAsset
        /\ pf[ab[1]].quoteAsset = pf[ab[2]].quoteAsset
        /\ pf[ab[1]].markPrice # 0
        /\ pf[ab[1]].indexPrice # 0
        /\ pf[ab[2]].markPrice # 0
        /\ pf[ab[2]].indexPrice # 0 }

MarketCombinationsFutures(pf) ==
    { ab \in (DOMAIN pf) \X (DOMAIN pf) :
        /\ pf[ab[1]].exchange # pf[ab[2]].exchange
        /\ pf[ab[1]].baseAsset = pf[ab[2]].baseAsset
        /\ \/ pf[ab[1]].quoteAsset = pf[ab[2]].quoteAsset
           \/ /\ pf[ab[1]].quoteAsset \in {"USDT", "USDC"}
              /\ pf[ab[2]].quoteAsset \in {"USDT", "USDC"}
        /\ pf[ab[1]].markPrice # 0
        /\ pf[ab[1]].indexPrice # 0
        /\ pf[ab[2]].markPrice # 0
        /\ pf[ab[2]].indexPrice # 0 }

\* CONCAT(firstPairSymbol, '_', secondPairSymbol, '_', firstPairExchange,
\* '-', secondPairExchange)
DiffFuturesPairKey(a, b) == <<a.symbol, b.symbol, a.exchange, b.exchange>>

\* One row of updating_data of the futures statement.
UpdatingDataFuturesMutantElapsed(a, b, now) ==
    [symbol                    |-> <<a.symbol, b.symbol>>,
     baseAsset                 |-> a.baseAsset,
     quoteAsset                |-> a.quoteAsset,
     firstPairExchange         |-> a.exchange,
     firstPairMarkPrice        |-> a.markPrice,
     firstPairIndexPrice       |-> a.indexPrice,
     secondPairExchange        |-> b.exchange,
     secondPairMarkPrice       |-> b.markPrice,
     secondPairIndexPrice      |-> b.indexPrice,
     differenceMark            |-> b.markPrice - a.markPrice,
     differenceIndex           |-> b.indexPrice - a.indexPrice,
     differenceMarkPercentage  |-> DifferencePercentage(a.markPrice, b.markPrice),
     differenceIndexPercentage |-> DifferencePercentage(a.indexPrice, b.indexPrice),
     timeOfLife                |-> Null,
     timeElapsed               |-> now,
     firstExchangeNetworks     |-> {},
     secondExchangeNetworks    |-> {},
     updatedAt                 |-> now,
     createdAt                 |-> now]

UpdatingDataFutures(a, b, now) ==
    [symbol                    |-> <<a.symbol, b.symbol>>,
     baseAsset                 |-> a.baseAsset,
     quoteAsset                |-> a.quoteAsset,
     firstPairExchange         |-> a.exchange,
     firstPairMarkPrice        |-> a.markPrice,
     firstPairIndexPrice       |-> a.indexPrice,
     secondPairExchange        |-> b.exchange,
     secondPairMarkPrice       |-> b.markPrice,
     secondPairIndexPrice      |-> b.indexPrice,
     differenceMark            |-> b.markPrice - a.markPrice,
     differenceIndex           |-> b.indexPrice - a.indexPrice,
     differenceMarkPercentage  |-> DifferencePercentage(a.markPrice, b.markPrice),
     differenceIndexPercentage |-> DifferencePercentage(a.indexPrice, b.indexPrice),
     timeOfLife                |-> Null,
     timeElapsed               |-> 0,
     firstExchangeNetworks     |-> {},
     secondExchangeNetworks    |-> {},
     updatedAt                 |-> now,
     createdAt                 |-> now]

\* INSERT INTO diffsfutures ... ON CONFLICT (pairKey) DO UPDATE: the
\* diffsfutures table after the statement ran at time now.
UpdateDiffsFuturesSQL(d, now) ==
    LET combos == MarketCombinationsFutures(d.pairsfutures)
        keyOf(ab) == DiffFuturesPairKey(d.pairsfutures[ab[1]], d.pairsfutures[ab[2]])
        keys == { keyOf(ab) : ab \in combos }
        comboOf(k) == CHOOSE ab \in combos : keyOf(ab) = k
        newRow(k) == UpdatingDataFutures(d.pairsfutures[comboOf(k)[1]],
                                         d.pairsfutures[comboOf(k)[2]], now)
    IN  [k \in (DOMAIN d.diffsfutures) \cup keys |->
            IF k \notin keys THEN d.diffsfutures[k]
            ELSE IF k \in DOMAIN d.diffsfutures
                 THEN [newRow(k) EXCEPT !.createdAt = d.diffsfutures[k].createdAt,
                                        !.timeOfLife = d.diffsfutures[k].timeOfLife]
                 ELSE newRow(k)]

-----------------------------------------------------------------------------
(* Venue adapters: fetch, normalise, write *)

\* The instruments a venue's answer can list.
Symbols == {"BTCUSDT", "ETHUSDT"}
Coins == {"BTC", "ETH"}

\* The assets of a listed symbol, as the venue's symbol endpoint gives them.
BaseAsset(symbol) == IF symbol = "BTCUSDT" THEN "BTC" ELSE "ETH"
QuoteAsset(symbol) == "USDT"

InstrumentsOf(table) == IF table = "nets" THEN Coins ELSE Symbols

\* The decoded answers of one run: the listed instruments and their values.
Payloads(op) ==
    UNION { [S -> RawValues] : S \in SUBSET InstrumentsOf(op.table) }

\* The key an adapter builds for an instrument: pairKey
\* (symbol_exchange_market) or coinKey (coin_exchange_network), by its parts.
\* huobi.UpdateAllSpotPairs formats "%s_HUOBI_SPOT".
KeyOf(op, item) ==
    IF op.table = "nets" THEN <<item, op.exchange, "MAIN">>
    ELSE IF op.name = "huobi.UpdateAllSpotPairs" THEN <<item, "HUOBI", "SPOT">>
    ELSE IF op.table = "pairs" THEN <<item, op.exchange, "spot">>
    ELSE <<item, op.exchange, "futures">>

\* The record an adapter builds for one instrument (models.Pair,
\* models.PairFutures, or the nets tuple), stamped with time.Now().
AdapterRow(op, item, raw, now) ==
    IF op.table = "pairs"
    THEN [pairKey |-> KeyOf(op, item),
          symbol |-> item, exchange |-> op.exchange, market |-> "spot",
          price |-> raw, baseAsset |-> BaseAsset(item), quoteAsset |-> QuoteAsset(item),
          updatedAt |-> now, createdAt |-> now]
    ELSE IF op.table = "pairsfutures"
    THEN [pairKey |-> KeyOf(op, item),
          symbol |-> item, exchange |-> op.exchange, market |-> "futures",
          markPrice |-> raw, indexPrice |-> raw,
          baseAsset |-> BaseAsset(item), quoteAsset |-> QuoteAsset(item),
          updatedAt |-> now, createdAt |-> now]
    ELSE [coinKey |-> KeyOf(op, item),
          coin |-> item, exchange |-> op.exchange, network |-> "MAIN",
          depositEnable |-> (raw = 2), withdrawEnable |-> TRUE, updatedAt |-> now]

\* The batch of one run, by row key.
Normalise(op, payload, now) ==
    LET kept == { i \in DOMAIN payload : ~(op.drops /\ payload[i] <= 0) }
    IN  [k \in { KeyOf(op, i) : i \in kept } |->
            AdapterRow(op, k[1], payload[k[1]], now)]

\* INSERT ... ON CONFLICT (key) DO UPDATE SET ...: createdAt is not in the
\* SET list.
UpsertRowMutantAdd(table, k, row) ==
    [x \in (DOMAIN table) \cup {k} |->
        IF x # k THEN table[x]
        ELSE IF k \in DOMAIN table /\ "price" \in DOMAIN row
             THEN [row EXCEPT !.createdAt = table[k].createdAt,
                              !.price = table[k].price + row.price]
             ELSE row]

UpsertRowMutantFresh(table, k, row) ==
    [x \in (DOMAIN table) \cup {k} |-> IF x # k THEN table[x] ELSE row]

UpsertRow(table, k, row) ==
    [x \in (DOMAIN table) \cup {k} |->
        IF x # k THEN table[x]
        ELSE IF k \in DOMAIN table /\ "createdAt" \in DOMAIN row
             THEN [row EXCEPT !.createdAt = table[k].createdAt]
             ELSE row]

\* DELETE FROM nets WHERE exchange = ...
DeleteVenueMutantAll(table, exchange) == [k \in {} |-> <<>>]

DeleteVenue(table, exchange) ==
    [k \in { x \in DOMAIN table : table[x].exchange # exchange } |-> table[k]]

\* The table after the statements staged in a transaction are committed.
ApplyTx(table, exchange, deleted, rows, keys) ==
    LET base == IF deleted THEN DeleteVenue(table, exchange) ELSE table
    IN  [x \in (DOMAIN base) \cup keys |->
            IF x \in keys THEN UpsertRow(base, x, rows[x])[x] ELSE base[x]]

\* The table after a run of op that fetched payload at time now committed.
CommittedRun(table, op, payload, now) ==
    LET rows == Normalise(op, payload, now)
    IN  ApplyTx(table, op.exchange, op.deletes, rows, DOMAIN rows)

\* The tables after Binance and Bybit each listed BTCUSDT (spot and futures)
\* and Binance and Bitget each listed the BTC network at time 0, and both
\* differential statements ran.
SeedTables ==
    LET a == [s \in {"BTCUSDT"} |-> 1]
        b == [s \in {"BTCUSDT"} |-> 2]
        c == [s \in {"BTC"} |-> 2]
        snap == [pairs |-> CommittedRun(CommittedRun(EmptyTable, BinanceUpdateAllSpotPairs, a, 0),
                                        BybitUpdateAllSpotPairs, b, 0),
                 pairsfutures |-> CommittedRun(CommittedRun(EmptyTable, BinanceUpdateAllFuturesPairs, a, 0),
                                               BybitUpdateAllFuturesPairs, b, 0),
                 nets |-> CommittedRun(CommittedRun(EmptyTable, BinanceUpdateAllNetworks, c, 0),
                                       BitgetUpdateAllNetworks, c, 0),
                 diffs |-> EmptyTable, diffsfutures |-> EmptyTable]
    IN  [snap EXCEPT !.diffs = UpdateDiffsSQL(snap, 0),
                     !.diffsfutures = UpdateDiffsFuturesSQL(snap, 0)]

EmptyDb == [pairs |-> EmptyTable, pairsfutures |-> EmptyTable, nets |-> EmptyTable]

IdleRun(op) ==
    [pc |-> "idle", op |-> op, pending |-> 0, errs |-> 0, blocked |-> 0,
     failed |-> FALSE, rows |-> EmptyTable, todo |-> {}, stamp |-> 0,
     tx |-> "none", txDeleted |-> FALSE, txRows |-> {}, result |-> FALSE,
     before |-> EmptyDb]

Returned(r, result) == [r EXCEPT !.pc = "returned", !.result = result]

\* gocron fires the job: the task calls the Update function, which starts
\* its fetches.
AdapterFire(op) ==
    /\ run.pc = "idle"
    /\ run.op = op
    /\ clock <= MaxRuns
    /\ run' = [IdleRun(op) EXCEPT !.pc = "fetching", !.pending = op.fetches,
                                  !.before = db]
    /\ UNCHANGED <<clock, db, diffMutex, task, hist>>

\* One fetch ends.  A failure it detects is sent on errChan; the send blocks
\* when the channel is full, and the goroutine then never reaches wg.Done().
FetchReturn ==
    /\ run.pc = "fetching"
    /\ run.pending > 0
    /\ \E out \in FetchOutcomes :
         LET checked  == run.pending > run.op.unchecked
             detected == out \in {"transport", "decode"} \/ (out = "status" /\ checked)
             room     == run.errs < run.op.errCap
         IN  run' = [run EXCEPT !.pending = @ - 1,
                                !.failed = @ \/ out # "ok",
                                !.errs = IF detected /\ room THEN @ + 1 ELSE @,
                                !.blocked = IF detected /\ ~room THEN @ + 1 ELSE @]
    /\ UNCHANGED <<clock, db, diffMutex, task, hist>>

\* wg.Wait() returns, errChan is closed and ranged over: any error returns
\* false.
WaitErrors ==
    /\ run.pc = "fetching"
    /\ run.pending = 0
    /\ run.blocked = 0
    /\ run' = IF run.errs > 0 THEN Returned(run, FALSE)
              ELSE [run EXCEPT !.pc = "fetched"]
    /\ UNCHANGED <<clock, db, diffMutex, task, hist>>

\* The loop that builds the batch, and the emptiness tests before Begin.
BuildBatch ==
    /\ run.pc = "fetched"
    /\ \E payload \in Payloads(run.op) :
         LET rows == Normalise(run.op, payload, clock)
         IN  run' =
               IF run.op.needsPayload /\ DOMAIN payload = {}
               THEN Returned(run, FALSE)
               ELSE IF run.op.onEmpty = "false" /\ DOMAIN rows = {}
               THEN Returned(run, FALSE)
               ELSE IF run.op.write = "autoRows" /\ DOMAIN rows = {}
               THEN Returned(run, TRUE)
               ELSE [run EXCEPT !.pc = IF run.op.write = "autoRows" THEN "rows" ELSE "begin",
                                !.rows = rows,
                                !.todo = IF run.op.write = "autoRows" THEN DOMAIN rows ELSE {},
                                !.stamp = clock]
    /\ UNCHANGED <<clock, db, diffMutex, task, hist>>

\* tx, err := db.Begin()
Begin ==
    /\ run.pc = "begin"
    /\ \E ok \in BOOLEAN :
         run' = IF ok
                THEN [run EXCEPT !.tx = "open",
                                 !.pc = IF run.op.deletes THEN "delete" ELSE "built"]
                ELSE Returned(run, FALSE)
    /\ UNCHANGED <<clock, db, diffMutex, task, hist>>

\* tx.Exec(DELETE ...): staged in the transaction, or rolled back.
Delete ==
    /\ run.pc = "delete"
    /\ \E ok \in BOOLEAN :
         run' = IF ok
                THEN [run EXCEPT !.txDeleted = TRUE, !.pc = "built"]
                ELSE Returned([run EXCEPT !.tx = "rolledback"], FALSE)
    /\ UNCHANGED <<clock, db, diffMutex, task, hist>>

\* The emptiness test inside the transaction.
EmptyBatch ==
    /\ run.pc = "built"
    /\ IF DOMAIN run.rows = {} /\ run.op.onEmpty = "rollbackTrue"
       THEN /\ run' = Returned([run EXCEPT !.tx = "rolledback"], TRUE)
            /\ db' = db
       ELSE IF DOMAIN run.rows = {} /\ run.op.onEmpty = "commitFalse"
       THEN \E ok \in BOOLEAN :
              /\ run' = Returned([run EXCEPT !.tx = IF ok THEN "committed" ELSE "rolledback"],
                                 FALSE)
              /\ db' = IF ok
                       THEN [db EXCEPT ![run.op.table] =
                               ApplyTx(@, run.op.exchange, run.txDeleted, run.rows, {})]
                       ELSE db
       ELSE /\ run' = [run EXCEPT !.pc = IF run.op.write = "exec" THEN "exec" ELSE "prepare"]
            /\ db' = db
    /\ UNCHANGED <<clock, diffMutex, task, hist>>

\* stmt, err := tx.Prepare(query): a statement built from no placeholder
\* group is a syntax error.
Prepare ==
    /\ run.pc = "prepare"
    /\ \E ok \in BOOLEAN :
         LET good == ok /\ (DOMAIN run.rows # {} \/ run.op.write = "preparedRows")
         IN  run' =
               IF good
               THEN [run EXCEPT !.pc = IF run.op.write = "preparedRows" THEN "rows" ELSE "exec",
                                !.todo = IF run.op.write = "preparedRows" THEN DOMAIN run.rows ELSE {}]
               ELSE Returned([run EXCEPT !.tx = IF run.op.prepareRollback
                                                THEN "rolledback" ELSE "open"], FALSE)
    /\ UNCHANGED <<clock, db, diffMutex, task, hist>>

\* The one multi-row statement of the batch: stmt.Exec(args...) or
\* tx.Exec(query, args...).
Exec ==
    /\ run.pc = "exec"
    /\ \E ok \in BOOLEAN :
         run' = IF ok
                THEN [run EXCEPT !.txRows = DOMAIN run.rows, !.pc = "commit"]
                ELSE Returned([run EXCEPT !.tx = "rolledback"], FALSE)
    /\ UNCHANGED <<clock, db, diffMutex, task, hist>>

\* stmt.Exec of one row inside the transaction.
ExecRow ==
    /\ run.pc = "rows"
    /\ run.op.write = "preparedRows"
    /\ \E k \in run.todo, ok \in BOOLEAN :
         run' = IF ok
                THEN [run EXCEPT !.txRows = @ \cup {k}, !.todo = @ \ {k},
                                 !.pc = IF run.todo = {k} THEN "commit" ELSE "rows"]
                ELSE Returned([run EXCEPT !.tx = "rolledback"], FALSE)
    /\ UNCHANGED <<clock, db, diffMutex, task, hist>>

\* db.Exec of one row outside any transaction: it commits on its own, and
\* its error is logged only.
AutoExecRow ==
    /\ run.pc = "rows"
    /\ run.op.write = "autoRows"
    /\ \E k \in run.todo, ok \in BOOLEAN :
         /\ db' = IF ok
                  THEN [db EXCEPT ![run.op.table] = UpsertRow(@, k, run.rows[k])]
                  ELSE db
         /\ run' = IF run.todo = {k}
                   THEN Returned([run EXCEPT !.todo = {}], TRUE)
                   ELSE [run EXCEPT !.todo = @ \ {k}]
    /\ UNCHANGED <<clock, diffMutex, task, hist>>

\* tx.Commit(): everything staged becomes visible, or nothing does.
Commit ==
    /\ run.pc = "commit"
    /\ \E ok \in BOOLEAN :
         IF ok
         THEN /\ db' = [db EXCEPT ![run.op.table] =
                          ApplyTx(@, run.op.exchange, run.txDeleted, run.rows, run.txRows)]
              /\ run' = Returned([run EXCEPT !.tx = "committed"], TRUE)
         ELSE /\ db' = db
              /\ run' = Returned([run EXCEPT !.tx = "rolledback"], FALSE)
    /\ UNCHANGED <<clock, diffMutex, task, hist>>

\* The task wrapper of main gets the boolean, logs a false, and ends.
AdapterReturn ==
    /\ run.pc = "returned"
    /\ run' = IdleRun(run.op)
    /\ clock' = clock + 1
    /\ UNCHANGED <<db, diffMutex, task, hist>>

\* Each operation is explored on its own, from tables that already hold
\* rows of Binance, Bybit and Bitget.
InitAdapter ==
    /\ clock = 1
    /\ db = SeedTables
    /\ diffMutex = FALSE
    /\ task = [i \in Invocations |-> IdleTask]
    /\ hist = NoHist
    /\ run \in { IdleRun(op) : op \in AdapterOps }

NextAdapter ==
    \/ \E op \in AdapterOps : AdapterFire(op)
    \/ FetchReturn
    \/ WaitErrors
    \/ BuildBatch
    \/ Begin
    \/ Delete
    \/ EmptyBatch
    \/ Prepare
    \/ Exec
    \/ ExecRow
    \/ AutoExecRow
    \/ Commit
    \/ AdapterReturn

SpecAdapter == InitAdapter /\ [][NextAdapter]_vars

-----------------------------------------------------------------------------
(* Properties of the adapters *)

\* Rows of the run's batch that the table holds as this run wrote them.
Landed ==
    { k \in DOMAIN run.rows :
        /\ k \in DOMAIN db[run.op.table]
        /\ db[run.op.table][k].updatedAt = run.stamp }

\* C7 as claimed: when an adapter operation has returned, the table holds
\* either none or all of the rows of the run's batch.
C7_BatchAllOrNothing ==
    run.pc = "returned" => (Landed = {} \/ Landed = DOMAIN run.rows)

\* C8 as claimed: an operation one of whose fetches failed (transport error,
\* non-2xx status, undecodable body) returns false and has committed nothing.
C8_FetchFailureAborts ==
    (run.pc = "returned" /\ run.failed) => (run.result = FALSE /\ db = run.before)

\* C9 as claimed: when an operation returns false the tables are as they were
\* when it started.
C9_FalseLeavesTablesUnchanged ==
    (run.pc = "returned" /\ run.result = FALSE) => db = run.before

\* C10 as claimed: when an operation returns, a transaction it began is
\* committed or rolled back.
C10_NoTransactionLeftOpen ==
    run.pc = "returned" => run.tx # "open"

\* The operation has returned after building its batch: every fetch was
\* taken as good and the normalisation loop ran.
ReturnedAfterBuild ==
    /\ run.pc = "returned"
    /\ run.errs = 0

\* C11 as claimed: an operation whose normalisation yields an empty batch
\* has opened no transaction and returns success.
C11_EmptyBatchShortCircuits ==
    (ReturnedAfterBuild /\ DOMAIN run.rows = {}) =>
        (run.tx = "none" /\ run.result = TRUE)

-----------------------------------------------------------------------------
(* The tables under whole successful writes: an adapter run that commits its
   batch, a differential statement that commits *)

MaxWrites == 3

\* The adapters whose commits are explored against the differential
\* statements.
StoreOps == {BinanceUpdateAllSpotPairs, BinanceUpdateAllFuturesPairs}

\* History of the adapter commits: the operation and payload of the last
\* one, its table before it, and whether it repeated the operation and
\* payload of the commit before it.
NoCommit == [op |-> "none", payload |-> <<>>, prior |-> EmptyTable, repeat |-> FALSE]

\* A run of op commits a non-empty batch.
AdapterCommit(op) ==
    /\ clock <= MaxWrites
    /\ \E payload \in Payloads(op) :
         /\ DOMAIN Normalise(op, payload, clock) # {}
         /\ db' = [db EXCEPT ![op.table] = CommittedRun(@, op, payload, clock)]
         /\ hist' = [op |-> op.name, payload |-> payload, prior |-> db[op.table],
                     repeat |-> (hist.op = op.name /\ hist.payload = payload)]
    /\ clock' = clock + 1
    /\ UNCHANGED <<diffMutex, task, run>>

\* A differential statement commits.
DiffCommit(job) ==
    /\ clock <= MaxWrites
    /\ db' = IF job = "updateDiffs"
             THEN [db EXCEPT !.diffs = UpdateDiffsSQL(db, clock)]
             ELSE [db EXCEPT !.diffsfutures = UpdateDiffsFuturesSQL(db, clock)]
    /\ clock' = clock + 1
    /\ UNCHANGED <<diffMutex, task, hist, run>>

InitStore ==
    /\ clock = 1
    /\ db = SeedTables
    /\ diffMutex = FALSE
    /\ task = [i \in Invocations |-> IdleTask]
    /\ hist = NoCommit
    /\ run = NoRun

NextStore ==
    \/ \E op \in StoreOps : AdapterCommit(op)
    \/ \E job \in DiffJobs : DiffCommit(job)

SpecStore == InitStore /\ [][NextStore]_vars

\* C12: no write changes the createdAt of a row that exists already: in
\* every step, every row present before and after the step (pairs,
\* pairsfutures, diffs, diffsfutures) keeps its createdAt.
C12_CreatedAtKept ==
    [][\A t \in DOMAIN db :
         \A k \in (DOMAIN db[t]) \cap (DOMAIN db'[t]) :
            "createdAt" \in DOMAIN db[t][k] =>
                db'[t][k].createdAt = db[t][k].createdAt]_vars

\* A row written again after its insert by an adapter, by the spot
\* differential and by the futures differential.
C12_Witness ==
    /\ \E k \in DOMAIN db.pairs : db.pairs[k].updatedAt > db.pairs[k].createdAt
    /\ \E k \in DOMAIN db.diffs : db.diffs[k].updatedAt > db.diffs[k].createdAt
    /\ \E k \in DOMAIN db.diffsfutures :
           db.diffsfutures[k].updatedAt > db.diffsfutures[k].createdAt

\* A table without its updatedAt column.
WithoutUpdatedAt(table) ==
    [k \in DOMAIN table |-> [table[k] EXCEPT !.updatedAt = 0]]

\* C13: when a spot adapter run commits the payload that its previous run
\* committed, pairs after the second run equals pairs after the first in
\* every column except updatedAt.
C13_SpotIngestionIdempotent ==
    (hist.repeat /\ hist.op = BinanceUpdateAllSpotPairs.name) =>
        WithoutUpdatedAt(db.pairs) = WithoutUpdatedAt(hist.prior)

\* The second of two runs on a payload that lists both symbols has
\* committed.
C13_Witness ==
    /\ hist.repeat
    /\ hist.op = BinanceUpdateAllSpotPairs.name
    /\ DOMAIN hist.payload = Symbols
    /\ \E k \in DOMAIN db.pairs :
          /\ db.pairs[k].exchange = "Binance"
          /\ db.pairs[k].updatedAt > db.pairs[k].createdAt
          /\ db.pairs[k].updatedAt > hist.prior[k].updatedAt


\* The rows of a table that belong to other venues than exchange.
ForeignRows(table, exchange) ==
    [k \in { x \in DOMAIN table : table[x].exchange # exchange } |-> table[k]]

C15_StoredPricesPositive ==
    /\ \A k \in DOMAIN db.pairs : db.pairs[k].price > 0
    /\ \A k \in DOMAIN db.pairsfutures :
         db.pairsfutures[k].markPrice > 0 /\ db.pairsfutures[k].indexPrice > 0


\* C16 as claimed: the pairKey of every row of pairs and pairsfutures is its
\* symbol, its exchange and its market joined by "_", in the same case.
C16_PairKeyIsComposite ==
    \A t \in {"pairs", "pairsfutures"} : \A k \in DOMAIN db[t] :
        db[t][k].pairKey = <<db[t][k].symbol, db[t][k].exchange, db[t][k].market>>


\* C20 as claimed: when a network run of venue V has returned true, the nets
\* rows of V are exactly the (coin, network) pairs of the catalog the run
\* fetched.
C20_NetsMirrorCatalog ==
    (run.pc = "returned" /\ run.result = TRUE /\ run.op.table = "nets") =>
        { k \in DOMAIN db.nets : db.nets[k].exchange = run.op.exchange } = DOMAIN run.rows

\* The adapters when every goroutine that can take a step takes it: each
\* HTTP call and each database call returns.
FairAdapter == SpecAdapter /\ WF_vars(NextAdapter)

\* C27 as claimed: an adapter operation that has started its fetches
\* returns, whatever the outcomes of the fetches.
C27_AdapterTerminates == (run.pc = "fetching") ~> (run.pc = "returned")

-----------------------------------------------------------------------------
(* Sanitizers: the numeric fields an adapter hands to the writer *)

RECURSIVE Ten(_)
Ten(k) == IF k = 0 THEN 1 ELSE 10 * Ten(k - 1)

\* A float64 as the adapters see it after strconv.ParseFloat: NaN, an
\* infinity, or a finite value.  The magnitude of a finite value is
\* hi * 10^9 + lo whole units and frac units of 10^-8; "huge" is a finite
\* value above every column bound (such as 9.99999999e99).  Zero carries no
\* sign.
Float(cls, neg, hi, lo, frac) == [cls |-> cls, neg |-> neg, hi |-> hi, lo |-> lo, frac |-> frac]
NaN == Float("nan", FALSE, 0, 0, 0)
Inf(neg) == Float("inf", neg, 0, 0, 0)
Huge(neg) == Float("huge", neg, 0, 0, 0)
Fin(neg, hi, lo, frac) == Float("fin", neg, hi, lo, frac)
Zero == Fin(FALSE, 0, 0, 0)

\* math.Pow10(n) for the exponents in use.
Pow10(n) == IF n >= 9 THEN Fin(FALSE, Ten(n - 9), 0, 0) ELSE Fin(FALSE, 0, Ten(n), 0)

IsNaN(x) == x.cls = "nan"
IsInf(x) == x.cls = "inf"

Level(x) == IF x.cls = "fin" THEN 0 ELSE IF x.cls = "huge" THEN 1 ELSE 2

MagLess(x, y) ==
    \/ Level(x) < Level(y)
    \/ /\ Level(x) = 0
       /\ Level(y) = 0
       /\ \/ x.hi < y.hi
          \/ x.hi = y.hi /\ x.lo < y.lo
          \/ x.hi = y.hi /\ x.lo = y.lo /\ x.frac < y.frac

\* x < y and x > y of float64: false when either side is NaN.
Less(x, y) ==
    /\ ~IsNaN(x)
    /\ ~IsNaN(y)
    /\ IF x.neg /\ ~y.neg THEN TRUE
       ELSE IF ~x.neg /\ y.neg THEN FALSE
       ELSE IF x.neg THEN MagLess(y, x)
       ELSE MagLess(x, y)

Greater(x, y) == Less(y, x)

Negate(x) == IF IsNaN(x) \/ x = Zero THEN x ELSE [x EXCEPT !.neg = ~x.neg]

\* The nearest value with scale fractional digits; an exact tie goes away
\* from zero (tiesAway) or to the even digit.  NaN, the infinities and the
\* values above the range stay as they are.
RoundDecimal(val, scale, tiesAway) ==
    IF val.cls # "fin" \/ scale >= 8 THEN val
    ELSE LET step  == Ten(8 - scale)
             q     == val.frac \div step
             r     == val.frac % step
             up    == 2 * r > step \/ (2 * r = step /\ (tiesAway \/ q % 2 = 1))
             f     == (q + (IF up THEN 1 ELSE 0)) * step
             c1    == f = Ten(8)
             lo2   == val.lo + (IF c1 THEN 1 ELSE 0)
             c2    == lo2 = Ten(9)
             hi3   == val.hi + (IF c2 THEN 1 ELSE 0)
             lo3   == IF c2 THEN 0 ELSE lo2
             f3    == IF c1 THEN 0 ELSE f
         IN  Fin(val.neg /\ (hi3 # 0 \/ lo3 # 0 \/ f3 # 0), hi3, lo3, f3)

\* fmt.Sprintf("%.<precision>f", val) followed by strconv.ParseFloat; "NaN"
\* and "+Inf" print and parse back as themselves.
formatFloat(val, precision) == RoundDecimal(val, precision, FALSE)

\* okx.sanitizeDecimal and mexc.sanitizeDecimal (the same body).
sanitizeDecimal(value, maxValue, precision) ==
    IF IsNaN(value) \/ IsInf(value) THEN Zero
    ELSE LET clamped == IF Greater(value, maxValue) THEN maxValue
                        ELSE IF Less(value, Negate(maxValue)) THEN Negate(maxValue)
                        ELSE value
         IN  formatFloat(clamped, precision)

\* gate.validateFloat64.
validateFloat64(value, precision, scale) ==
    LET maxValue == Pow10(precision - scale)
    IN  IF Greater(value, maxValue) THEN maxValue
        ELSE IF Less(value, Negate(maxValue)) THEN Negate(maxValue)
        ELSE formatFloat(value, scale)

\* kucoin limitFloat.
limitFloat(value, min, max) ==
    IF Less(value, min) THEN min
    ELSE IF Greater(value, max) THEN max
    ELSE value

\* The float64 of the literals 9999999999.99999999 and
\* 999999999999999999.99: neither has a float64 of its own, and the nearest
\* ones are 1e10 and 1e18.  99999999.99 keeps its two decimals.
MAX_DECIMAL_18_8 == Pow10(10)
MAX_DECIMAL_10_2 == Fin(FALSE, 0, 99999999, 99000000)
MAX_DECIMAL_20_2 == Pow10(18)


\* The text of a numeric field of a venue's answer: a number
\* strconv.ParseFloat accepts ("NaN" and "Inf" among them), or a text it
\* rejects (empty, not a number, out of range).
FloatInputs ==
    { NaN, Inf(FALSE), Inf(TRUE), Huge(FALSE), Huge(TRUE), Zero,
      Fin(FALSE, 0, 1, 0), Fin(TRUE, 0, 1, 0),
      Fin(FALSE, 0, 12345, 67812345),
      Fin(FALSE, 0, 99999999, 99000000),
      Fin(FALSE, 0, 123456789, 12700000),
      Fin(FALSE, 9, 999999999, 99999800),
      Fin(FALSE, 10, 0, 0),
      Fin(FALSE, 10, 1, 0),
      Fin(TRUE, 20, 0, 0),
      Fin(FALSE, Ten(9), 0, 0) }

Texts == {[kind |-> "rejected", val |-> Zero]} \cup { [kind |-> "number", val |-> v] : v \in FloatInputs }

\* parseFloat of every adapter: 0 when strconv.ParseFloat fails.
parseFloat(s) == IF s.kind = "rejected" THEN Zero ELSE s.val

\* The adapters whose numeric fields are followed, and the columns of pairs
\* each fills from a text of the venue's answer.
SanitizeVenues == {"OKX", "MEXC", "Gate", "KuCoin", "Kraken", "Bybit"}

ColumnsOf(venue) ==
    IF venue \in {"OKX", "MEXC", "Gate"}
    THEN {"price", "priceChangePercent24h", "baseVolume24h", "quoteVolume24h"}
    ELSE IF venue = "Bybit" THEN {"price", "baseVolume24h", "quoteVolume24h"}
    ELSE {"price", "baseVolume24h"}

\* DECIMAL(precision, scale) of the columns of pairs.
ColumnType(column) ==
    IF column = "price" THEN <<18, 8>>
    ELSE IF column = "priceChangePercent24h" THEN <<10, 2>>
    ELSE <<20, 2>>

\* The sanitizer a venue's adapter applies to a field, and the bound it
\* passes.
SanitizerOf(venue) ==
    IF venue \in {"OKX", "MEXC"} THEN "sanitizeDecimal"
    ELSE IF venue = "Gate" THEN "validateFloat64"
    ELSE IF venue = "KuCoin" THEN "limitFloat"
    ELSE "none"

MaxOf(venue, column) ==
    IF venue \in {"OKX", "MEXC"}
    THEN IF column = "price" THEN MAX_DECIMAL_18_8
         ELSE IF column = "priceChangePercent24h" THEN MAX_DECIMAL_10_2
         ELSE MAX_DECIMAL_20_2
    ELSE IF venue = "Gate" THEN Pow10(ColumnType(column)[1] - ColumnType(column)[2])
    ELSE Pow10(10)

\* The value of a field of the models.Pair the adapter appends to its batch.
PairField(venue, column, s) ==
    IF SanitizerOf(venue) = "sanitizeDecimal"
    THEN sanitizeDecimal(parseFloat(s), MaxOf(venue, column), ColumnType(column)[2])
    ELSE IF SanitizerOf(venue) = "validateFloat64"
    THEN validateFloat64(parseFloat(s), ColumnType(column)[1], ColumnType(column)[2])
    ELSE IF SanitizerOf(venue) = "limitFloat"
    THEN limitFloat(parseFloat(s), Negate(MaxOf(venue, column)), MaxOf(venue, column))
    ELSE parseFloat(s)

\* A DECIMAL(precision, scale) column takes NaN and every finite value that
\* rounds to less than 10^(precision - scale) in absolute value; anything
\* else is a numeric field overflow.
ColumnAccepts(column, x) ==
    \/ IsNaN(x)
    \/ /\ x.cls = "fin"
       /\ MagLess(RoundDecimal(x, ColumnType(column)[2], TRUE),
                  Pow10(ColumnType(column)[1] - ColumnType(column)[2]))

NoField == [venue |-> "none", column |-> "none", text |-> [kind |-> "rejected", val |-> Zero], value |-> Zero]

\* The adapter of venue builds one numeric field of a record from the text
\* the venue returned.
BuildField(venue) ==
    /\ \E column \in ColumnsOf(venue), s \in Texts :
         run' = [venue |-> venue, column |-> column, text |-> s,
                 value |-> PairField(venue, column, s)]
    /\ UNCHANGED <<clock, db, diffMutex, task, hist>>

InitSanitize ==
    /\ clock = 0
    /\ db = EmptyDb
    /\ diffMutex = FALSE
    /\ task = [i \in Invocations |-> IdleTask]
    /\ hist = NoHist
    /\ run = NoField

NextSanitize == \E venue \in SanitizeVenues : BuildField(venue)

SpecSanitize == InitSanitize /\ [][NextSanitize]_vars

\* The bound the contract fixes for a column.
ColumnBound(column) ==
    IF column = "price" THEN Pow10(10)
    ELSE IF column = "priceChangePercent24h" THEN Pow10(8)
    ELSE Pow10(18)

Within(x, m) == ~IsNaN(x) /\ ~Less(x, Negate(m)) /\ ~Greater(x, m)

\* C17 as claimed: every numeric field an adapter hands to the writer is
\* within the bound of its column (price 10^10, percent 10^8, volumes
\* 10^18), whatever the venue returned.
C17_FieldsWithinColumnBounds ==
    run.venue # "none" => Within(run.value, ColumnBound(run.column))

\* C18 as claimed: a price above 10^10 given to a sanitizing adapter comes
\* out as a value the DECIMAL(18,8) price column accepts.
C18_ClampedPriceIsStored ==
    (/\ SanitizerOf(run.venue) \in {"sanitizeDecimal", "validateFloat64"}
     /\ run.column = "price"
     /\ Greater(parseFloat(run.text), Pow10(10)))
        => ColumnAccepts("price", run.value)

\* C19 as claimed: a sanitizer with bound m returns 0 for NaN, m for +Inf,
\* and a value within [-m, m] for every input.
C19_SanitizerResults ==
    SanitizerOf(run.venue) \in {"sanitizeDecimal", "validateFloat64"} =>
        LET v == parseFloat(run.text)
            m == MaxOf(run.venue, run.column)
        IN  /\ IsNaN(v) => run.value = Zero
            /\ v = Inf(FALSE) => run.value = m
            /\ Within(run.value, m)


-----------------------------------------------------------------------------
(* The differential statements on preloaded snapshots *)

MaxStatements == 2

\* Prices preloaded into pairs, in units of the price column.
PreloadPrices == {-1, 0, 1, 3, 100, 101, 150, 20000000}

\* A row of pairsfutures with the columns the futures statement reads.
FuturesRow(symbol, exchange, base, quote, mark, index) ==
    [symbol |-> symbol, exchange |-> exchange, market |-> "futures",
     baseAsset |-> base, quoteAsset |-> quote, markPrice |-> mark, indexPrice |-> index]

\* pairsfutures holding the rows a and b.
TwoFutures(a, b) ==
    [k \in {<<a.symbol, a.exchange>>, <<b.symbol, b.exchange>>} |->
        IF k = <<a.symbol, a.exchange>> THEN a ELSE b]

PreloadFutures ==
    { TwoFutures(FuturesRow(<<"BTC", qa>>, "Binance", "BTC", qa, 100, 100),
                 FuturesRow(<<base, qb>>, vb, base, qb, mark, index)) :
        qa \in {"USDT", "EUR"}, vb \in DiffVenues, base \in {"BTC", "ETH"},
        qb \in {"USDT", "USDC", "EUR"}, mark \in {0, 101}, index \in {0, 99} }

NoStatement == [spot |-> 0, futures |-> 0]

\* executeSQL of a differential job commits its statement.
StatementCommit(job) ==
    /\ clock <= MaxStatements
    /\ db' = IF job = "updateDiffs"
             THEN [db EXCEPT !.diffs = UpdateDiffsSQL(db, clock)]
             ELSE [db EXCEPT !.diffsfutures = UpdateDiffsFuturesSQL(db, clock)]
    /\ hist' = IF job = "updateDiffs"
               THEN [hist EXCEPT !.spot = @ + 1]
               ELSE [hist EXCEPT !.futures = @ + 1]
    /\ clock' = clock + 1
    /\ UNCHANGED <<diffMutex, task, run>>

InitStatement ==
    /\ clock = 1
    /\ \E first \in PreloadPrices, second \in PreloadPrices, pf \in PreloadFutures :
         db = [pairs |-> [k \in {<<DiffSymbol, v>> : v \in DiffVenues} |->
                            SnapshotRow(k[2], IF k[2] = "Binance" THEN first ELSE second)],
               pairsfutures |-> pf, nets |-> EmptyTable,
               diffs |-> EmptyTable, diffsfutures |-> EmptyTable]
    /\ diffMutex = FALSE
    /\ task = [i \in Invocations |-> IdleTask]
    /\ hist = NoStatement
    /\ run = NoRun

NextStatement == \E job \in DiffJobs : StatementCommit(job)

SpecStatement == InitStatement /\ [][NextStatement]_vars

-----------------------------------------------------------------------------
(* Properties of the differential statements *)

\* C21: every diffs row joins two different venues, and the row of the same
\* symbol in the opposite direction exists and carries the negated
\* difference.
C21_CrossVenueSymmetry ==
    \A k \in DOMAIN db.diffs :
        /\ db.diffs[k].firstPairExchange # db.diffs[k].secondPairExchange
        /\ \E r \in DOMAIN db.diffs :
             /\ db.diffs[r].symbol = db.diffs[k].symbol
             /\ db.diffs[r].firstPairExchange = db.diffs[k].secondPairExchange
             /\ db.diffs[r].secondPairExchange = db.diffs[k].firstPairExchange
             /\ db.diffs[r].difference = -db.diffs[k].difference

\* A spot differential run has rewritten a row with a positive difference.
C21_Witness ==
    \E k \in DOMAIN db.diffs :
        db.diffs[k].difference > 0 /\ db.diffs[k].updatedAt > db.diffs[k].createdAt


Abs(x) == IF x >= 0 THEN x ELSE -x

\* p is the quotient (second - first) / first * 100 cut after two decimals
\* toward zero: the whole percents and the hundredths each leave a
\* remainder smaller than the divisor, and neither has the opposite sign of
\* the quotient.
IsTruncatedPercentage(p, first, second) ==
    LET d        == second - first
        rest     == Abs(d) * 100 - Abs(p.whole) * Abs(first)
        rest2    == rest * 100 - Abs(p.cents) * Abs(first)
        negative == (d < 0) # (first < 0)
    IN  /\ rest >= 0
        /\ rest < Abs(first)
        /\ rest2 >= 0
        /\ rest2 < Abs(first)
        /\ negative => (p.whole <= 0 /\ p.cents <= 0)
        /\ ~negative => (p.whole >= 0 /\ p.cents >= 0)

\* The quotient (second - first) / first * 100, cut after two decimals, is
\* beyond the clamp on the side of sign.
BeyondClamp(first, second, sign) ==
    LET d     == second - first
        whole == (Abs(d) * 100) \div Abs(first)
        rest  == (Abs(d) * 100) % Abs(first)
    IN  /\ ((d < 0) # (first < 0)) = (sign < 0)
        /\ \/ whole > PctClamp
           \/ whole = PctClamp /\ (rest * 100) \div Abs(first) > 0

OneRunOnHundredAndHundredOne ==
    /\ hist.spot = 1
    /\ db.pairs[<<DiffSymbol, "Binance">>].price = 100
    /\ db.pairs[<<DiffSymbol, "Bybit">>].price = 101

\* The two rows of the example, with the given percentage in the second.
ExampleRows(secondPct) ==
    /\ DOMAIN db.diffs = {<<DiffSymbol, "Binance", "Bybit">>, <<DiffSymbol, "Bybit", "Binance">>}
    /\ db.diffs[<<DiffSymbol, "Binance", "Bybit">>].difference = 1
    /\ db.diffs[<<DiffSymbol, "Binance", "Bybit">>].differencePercentage = Pct(1, 0)
    /\ db.diffs[<<DiffSymbol, "Bybit", "Binance">>].difference = -1
    /\ db.diffs[<<DiffSymbol, "Bybit", "Binance">>].differencePercentage = secondPct

C24_FuturesJoinRule ==
    hist.futures >= 1 =>
        \A ka \in DOMAIN db.pairsfutures : \A kb \in DOMAIN db.pairsfutures :
            LET a == db.pairsfutures[ka]
                b == db.pairsfutures[kb]
            IN  (<<a.symbol, b.symbol, a.exchange, b.exchange>> \in DOMAIN db.diffsfutures)
                <=> (/\ a.exchange # b.exchange
                     /\ a.baseAsset = b.baseAsset
                     /\ (a.quoteAsset = b.quoteAsset
                         \/ {a.quoteAsset, b.quoteAsset} \subseteq {"USDT", "USDC"})
                     /\ a.markPrice # 0 /\ a.indexPrice # 0
                     /\ b.markPrice # 0 /\ b.indexPrice # 0)

\* A futures run has joined BTC/USDT on one venue with BTC/USDC on the other.
C24_Witness ==
    /\ hist.futures >= 1
    /\ <<"BTC", "USDT">> \in { db.pairsfutures[k].symbol : k \in DOMAIN db.pairsfutures }
    /\ <<<<"BTC", "USDT">>, <<"BTC", "USDC">>, "Binance", "Bybit">> \in DOMAIN db.diffsfutures


\* C25: every diffsfutures row has timeElapsed = 0, a NULL timeOfLife and
\* empty network objects on both sides, after any sequence of runs.
C25_FuturesCarryNoLifetime ==
    \A k \in DOMAIN db.diffsfutures :
        /\ db.diffsfutures[k].timeElapsed = 0
        /\ IsNull(db.diffsfutures[k].timeOfLife)
        /\ db.diffsfutures[k].firstExchangeNetworks = {}
        /\ db.diffsfutures[k].secondExchangeNetworks = {}

\* A later futures run has rewritten a row whose mark difference is positive
\* while nets holds rows of the row's venues.
C25_Witness ==
    \E k \in DOMAIN db.diffsfutures :
        /\ Positive(db.diffsfutures[k].differenceMarkPercentage)
        /\ db.diffsfutures[k].updatedAt > db.diffsfutures[k].createdAt + 1
        /\ \E n \in DOMAIN db.nets : db.nets[n].exchange = db.diffsfutures[k].firstPairExchange


-----------------------------------------------------------------------------
(* The API: GET /diffs *)

\* x < y for percentages.
PctLess(x, y) == x.whole < y.whole \/ (x.whole = y.whole /\ x.cents < y.cents)

\* Rows of diffs with the columns the query reads, by pairKey.
ApiRow(firstVolume, secondVolume, pct) ==
    [firstPairVolume |-> firstVolume, secondPairVolume |-> secondVolume,
     differencePercentage |-> pct]

ApiRows ==
    [k \in {"k1", "k2", "k3", "k4", "k5"} |->
        IF k = "k1" THEN ApiRow(1, 1, Pct(5, 0))
        ELSE IF k = "k2" THEN ApiRow(1, 1, Pct(7, 50))
        ELSE IF k = "k3" THEN ApiRow(0, 1, Pct(9, 0))
        ELSE IF k = "k4" THEN ApiRow(1, 1, Pct(100000, 0))
        ELSE ApiRow(2, 3, Pct(-3, 0))]

\* Values of the topRows query parameter.
TopRowsValues == {"", "0", "undefined", "2", "abc", "all", "ALL"}

ToLower(s) == IF s = "ALL" THEN "all" ELSE s

\* strconv.Atoi(topRows): the number, or Null on an error.
Atoi(s) == IF s = "0" THEN Some(0) ELSE IF s = "2" THEN Some(2) ELSE Null

\* The tail the handler appends to the query: whether it orders the rows,
\* and its LIMIT.
QueryTail(topRows) ==
    IF topRows = "" \/ topRows = "0" \/ topRows = "undefined"
    THEN [ordered |-> TRUE, limit |-> 500]
    ELSE IF ToLower(topRows) # "all"
    THEN IF ~IsNull(Atoi(topRows))
         THEN [ordered |-> TRUE, limit |-> Val(Atoi(topRows))]
         ELSE [ordered |-> TRUE, limit |-> 500]
    ELSE [ordered |-> FALSE, limit |-> 500]

\* AND firstPairVolume <> 0 AND secondPairVolume <> 0 AND
\* differencePercentage < 100000
Selected(diffs) ==
    { k \in DOMAIN diffs :
        /\ diffs[k].firstPairVolume # 0
        /\ diffs[k].secondPairVolume # 0
        /\ PctLess(diffs[k].differencePercentage, Pct(100000, 0)) }

\* The orders in which the rows of a set can be returned.
Orders(S) ==
    { f \in [1..Cardinality(S) -> S] : \A i, j \in DOMAIN f : i # j => f[i] # f[j] }

DescendingBy(diffs, seq) ==
    \A i, j \in DOMAIN seq :
        i < j => ~PctLess(diffs[seq[i]].differencePercentage, diffs[seq[j]].differencePercentage)

\* The rows db.Query returns: without ORDER BY the order is any.
QueryResults(diffs, topRows) ==
    LET tail == QueryTail(topRows)
    IN  { SubSeq(seq, 1, IF Len(seq) < tail.limit THEN Len(seq) ELSE tail.limit) :
            seq \in { o \in Orders(Selected(diffs)) : tail.ordered => DescendingBy(diffs, o) } }

NoRequest == [pc |-> "idle", topRows |-> "", response |-> <<>>]

\* The handler of GET /diffs answers a request that carries only topRows.
GetDiffs ==
    /\ \E topRows \in TopRowsValues :
         \E response \in QueryResults(db.diffs, topRows) :
            run' = [pc |-> "responded", topRows |-> topRows, response |-> response]
    /\ UNCHANGED <<clock, db, diffMutex, task, hist>>

InitApi ==
    /\ clock = 0
    /\ \E keys \in SUBSET (DOMAIN ApiRows) :
         db = [diffs |-> [k \in keys |-> ApiRows[k]]]
    /\ diffMutex = FALSE
    /\ task = [i \in Invocations |-> IdleTask]
    /\ hist = NoHist
    /\ run = NoRequest

NextApi == GetDiffs

SpecApi == InitApi /\ [][NextApi]_vars

\* C26 as claimed: whatever topRows is, the response holds only rows with
\* non-zero volumes on both sides and differencePercentage < 100000, ordered
\* by differencePercentage descending.
C26_DiffsResponseFilteredAndOrdered ==
    run.pc = "responded" =>
        /\ \A i \in DOMAIN run.response :
             /\ db.diffs[run.response[i]].firstPairVolume # 0
             /\ db.diffs[run.response[i]].secondPairVolume # 0
             /\ PctLess(db.diffs[run.response[i]].differencePercentage, Pct(100000, 0))
        /\ DescendingBy(db.diffs, run.response)


-----------------------------------------------------------------------------
(* Liveness of the differential jobs *)

\* C28: the step that ends an invocation leaves the lock free, whichever way
\* the invocation went, and an invocation that waits for the lock acquires
\* it.
C28_LockReleasedAndAcquired ==
    /\ [][\A i \in FairInvocations :
            (task[i].pc = "returned" /\ task'[i].pc = "idle") => diffMutex' = FALSE]_vars
    /\ \A i \in FairInvocations : (task[i].pc = "waitLock") ~> (task[i].pc = "locked")

\* An invocation waits for the lock while an invocation of the other job
\* holds it after its call failed.
C28_Witness ==
    \E i \in FairInvocations : \E j \in FairInvocations :
        /\ i[1] # j[1]
        /\ task[i].pc = "waitLock"
        /\ task[j].pc = "returned"
        /\ task[j].err # "none"
        /\ diffMutex = TRUE


\* C29 as claimed: when a spot run has just committed, every diffs row is
\* one that run wrote: no row is left from an earlier snapshot.
C29_NoStaleDiffs ==
    (task[SpotJob].pc = "returned" /\ task[SpotJob].err = "none") =>
        \A k \in DOMAIN db.diffs : db.diffs[k].updatedAt = task[SpotJob].now


-----------------------------------------------------------------------------
(* Overlapping invocations of one adapter job *)

MaxFetches == 3

\* The job whose invocations overlap: gocron starts the next invocation of
\* a job while the one before it is still running.
OverlapOp == BinanceUpdateAllSpotPairs
OverlapRuns == 1..MaxOverlap

IdleInvocation == [pc |-> "idle", rows |-> EmptyTable]

\* Invocation i fetches the venue's answer and builds its batch:
\* UpdatedAt is time.Now() of the build.
OverlapFetch(i) ==
    /\ run[i].pc = "idle"
    /\ clock <= MaxFetches
    /\ \E payload \in Payloads(OverlapOp) :
         /\ DOMAIN Normalise(OverlapOp, payload, clock) # {}
         /\ run' = [run EXCEPT ![i] = [pc |-> "built",
                                       rows |-> Normalise(OverlapOp, payload, clock)]]
    /\ clock' = clock + 1
    /\ UNCHANGED <<db, diffMutex, task, hist>>

\* Invocation i runs its transaction to the commit.
OverlapCommit(i) ==
    /\ run[i].pc = "built"
    /\ db' = [db EXCEPT ![OverlapOp.table] =
                 ApplyTx(@, OverlapOp.exchange, OverlapOp.deletes, run[i].rows, DOMAIN run[i].rows)]
    /\ run' = [run EXCEPT ![i] = IdleInvocation]
    /\ UNCHANGED <<clock, diffMutex, task, hist>>

InitOverlap ==
    /\ clock = 1
    /\ db = SeedTables
    /\ diffMutex = FALSE
    /\ task = [i \in Invocations |-> IdleTask]
    /\ hist = NoHist
    /\ run = [i \in OverlapRuns |-> IdleInvocation]

NextOverlap ==
    \/ \E i \in OverlapRuns : OverlapFetch(i)
    \/ \E i \in OverlapRuns : OverlapCommit(i)

SpecOverlap == InitOverlap /\ [][NextOverlap]_vars

\* C30 as claimed: across the commits of overlapping invocations the
\* updatedAt of a row never decreases, so a batch fetched earlier never
\* replaces the values of a batch fetched later.
C30_LaterFetchWins ==
    [][\A k \in (DOMAIN db.pairs) \cap (DOMAIN db'.pairs) :
          db'.pairs[k].updatedAt >= db.pairs[k].updatedAt]_vars

====
